---- MODULE Spec2Model ----
(***************************************************************************)
(* A model of internal_migration.ipynb: the place-name lookup table and    *)
(* match(), the Bing geocoding pass, the bounding-box matcher IOU(), the   *)
(* monthly user-home loop and migration().                                 *)
(*                                                                         *)
(* Each stage of the notebook is a state machine of its own, with its own  *)
(* variables and its own specification (SpecHome, SpecMig, SpecLookup,     *)
(* SpecGeo, SpecIOU); a specification holds the other stages' variables    *)
(* at their idle values.                                                   *)
(*                                                                         *)
(* Strings.  A place name is a sequence of tokens: its parts at the odd    *)
(* positions, the separators " and " and ", " between them, so that        *)
(* str.split and re.split are computed, not assumed.  <<>> is ''.          *)
(* In the user-home and migration stages a locality is an opaque string,   *)
(* "" is '' and NaN is pandas' missing value.                              *)
(***************************************************************************)
EXTENDS Integers, Sequences, FiniteSets, TLC

VARIABLES
    \* ---- user localization (lines 294-349)
    twitter_LAD,     \* the month's resolved posts: userid -> locality -> number of rows
    user_LAD,        \* the frame user_LAD: a sequence of rows [userid, counts, home]
    hi,              \* the loop variable i of "for i in range(endline)"
    hpc,             \* position in the month's body
    userhome_csv,    \* the file ...-userhome.csv as written by to_csv
    \* ---- migration() (lines 367-390)
    file1, file2,    \* the two user-home csv files: sets of rows [userid, home]
    mdf,             \* the local frame df / migration_df: rows [userid, home_x, home_y]
    flow_df,         \* the returned frame: rows [origin_LAD, destination_LAD, flow]
    mpc,             \* position in migration()
    \* ---- lookup table construction and match() (lines 63-145)
    lookup_df,       \* LAD21_LAU121_ITL321_ITL221_ITL121_UK_LU.csv: a set of rows
    ward_df,         \* WD21_LAD21_UK_LU_provisional.csv: a sequence of rows
    lookup_dict,     \* the global lookup_dict
    LAD_split_dict,  \* the global LAD_split_dict
    LAD_todo,        \* the names "for loc in LAD_set" has still to visit
    first_dict,      \* lookup_dict as the previous run of the cell left it
    run,             \* how many times the construction cell has been started
    lpc,             \* position in the construction cell / in match
    stack,           \* the arguments of the active calls of match, outermost first
    m_ret,           \* the value the outermost call of match returned
    \* ---- IOU() (lines 236-250)
    LAD,             \* the geo frame LAD: a sequence of rows [LAD21NM, geometry]
    se,              \* the argument of IOU: a row [bbox0, bbox1, bbox2, bbox3]
    locality_IOU,    \* the value IOU returned
    ipc,             \* position in IOU
    \* ---- the geocoding cells (lines 157-161, 181-218, 266-273)
    df,              \* the frame df: a sequence of rows
    special_loc_dict,\* the global special_loc_dict
    gi,              \* the loop variable i of the geocoding loop
    gpc              \* position in the geocoding cells

homeVars == <<twitter_LAD, user_LAD, hi, hpc, userhome_csv>>
migVars == <<file1, file2, mdf, flow_df, mpc>>
lookVars == <<lookup_df, ward_df, lookup_dict, LAD_split_dict, LAD_todo, first_dict,
              run, lpc, stack, m_ret>>

iouVars == <<LAD, se, locality_IOU, ipc>>

geoVars == <<df, special_loc_dict, gi, gpc>>

vars == <<homeVars, migVars, lookVars, iouVars, geoVars>>

\* what each stage leaves alone
notHome == <<migVars, lookVars, iouVars, geoVars>>
notMig == <<homeVars, lookVars, iouVars, geoVars>>
notLook == <<homeVars, migVars, iouVars, geoVars>>
notIOU == <<homeVars, migVars, lookVars, geoVars>>
notGeo == <<homeVars, migVars, lookVars, iouVars>>

----------------------------------------------------------------------------
(* Generic helpers *)

Range(s) == {s[k] : k \in DOMAIN s}

RECURSIVE SumOver(_, _)
SumOver(f, S) ==
    IF S = {} THEN 0
    ELSE LET x == CHOOSE y \in S : TRUE IN f[x] + SumOver(f, S \ {x})

Max(S) == CHOOSE m \in S : \A n \in S : n <= m

\* All orderings of the finite set S as sequences without repetition.
Perms(S) ==
    {s \in [1..Cardinality(S) -> S] : \A a, b \in DOMAIN s : a /= b => s[a] /= s[b]}

\* pandas' missing value
NaN == "nan"

----------------------------------------------------------------------------
(* User localization: user_localization() and the monthly loop body *)

MaxPosts == 10

\* userid is an integer column
Users == {1, 2}
Locs == {"X", "Y", "Z"}

\* One user's posts of the month: rows per locality, at most MaxPosts rows.
PostDist == {f \in [Locs -> 0..MaxPosts] : SumOver(f, Locs) <= MaxPosts}

\* twitter_LAD.userid.value_counts(): rows per user
UserCount(u) == SumOver(twitter_LAD[u], Locs)

\* twitter_LAD.drop_duplicates(): the distinct (userid, locality) pairs of a user
UserLocs(u) == {l \in Locs : twitter_LAD[u][l] > 0}

\* the 0.65 of user_localization, as ThresholdNum / ThresholdDen
ThresholdNum == 65
ThresholdDen == 100

\* counts.sum() > 1 and counts.max() / counts.sum() > 0.65
\* (the quotient of two small integers compared with 0.65: exact in binary64
\*  at these sizes, so the comparison is the rational one)
SupermajorityLax(mx, total) ==
    total > 1 /\ 5 * mx > 3 * total
Supermajority(mx, total) ==
    total > 1 /\ ThresholdDen * mx > ThresholdNum * total

\* temp_df.locality.iloc[0]: twitter_LAD_count_df is value_counts() output, sorted
\* by counts descending, so the first row of a user is a row of maximal count;
\* the order among equal counts is not fixed by pandas.
FirstRowLocs(u) ==
    {l \in UserLocs(u) : \A m \in UserLocs(u) : twitter_LAD[u][m] <= twitter_LAD[u][l]}

\* user_localization(userid): the set of values it can return
user_localization(u) ==
    LET total == UserCount(u)
        mx == Max({twitter_LAD[u][l] : l \in Locs})
    IN IF Supermajority(mx, total) THEN FirstRowLocs(u) ELSE {""}

\* user_LAD = user_LAD[user_LAD.counts > 1]
KeepUserOverTwo(c) == c > 2
KeepUser(c) == c > 1

\* user_oneloc: users with exactly one distinct locality, with that locality
user_oneloc(u) == Cardinality(UserLocs(u)) = 1

\* The rows of user_LAD after line 339: value_counts() order (counts descending,
\* ties in any order), users with one post dropped, home = the single locality
\* (left merge with user_oneloc) or NaN.
UserLADFrames ==
    LET kept == {u \in Users : UserCount(u) >= 1 /\ KeepUser(UserCount(u))}
    IN {[k \in DOMAIN s |->
            [userid |-> s[k], counts |-> UserCount(s[k]),
             home |-> IF user_oneloc(s[k])
                      THEN CHOOSE l \in UserLocs(s[k]) : TRUE ELSE NaN]]
        : s \in {p \in Perms(kept) :
                   \A a, b \in DOMAIN p : a < b => UserCount(p[a]) >= UserCount(p[b])}}

\* endline = user_LAD.shape[0] - user_LAD[user_LAD.counts == 2].shape[0]
endline == Len(user_LAD) - Cardinality({k \in DOMAIN user_LAD : user_LAD[k].counts = 2})

\* to_csv writes NaN and '' alike as an empty field
CsvField(v) == IF v = NaN THEN "" ELSE v
\* read_csv reads an empty field as NaN
ReadField(t) == IF t = "" THEN NaN ELSE t

InitHome ==
    /\ twitter_LAD \in [Users -> PostDist]
    /\ user_LAD = <<>>
    /\ hi = 0
    /\ hpc = "posts"
    /\ userhome_csv = <<>>

IdleHome ==
    /\ twitter_LAD = [u \in Users |-> [l \in Locs |-> 0]]
    /\ user_LAD = <<>>
    /\ hi = 0
    /\ hpc = "idle"
    /\ userhome_csv = <<>>

\* lines 325-339
Aggregate ==
    /\ hpc = "posts"
    /\ user_LAD' \in UserLADFrames
    /\ hi' = 0
    /\ hpc' = "loop"
    /\ UNCHANGED <<twitter_LAD, userhome_csv>>
    /\ UNCHANGED notHome

\* lines 343-346, one iteration with a home already set (continue)
LocalizeSkip ==
    /\ hpc = "loop"
    /\ hi < endline
    /\ user_LAD[hi + 1].home /= NaN
    /\ hi' = hi + 1
    /\ UNCHANGED <<twitter_LAD, user_LAD, hpc, userhome_csv>>
    /\ UNCHANGED notHome

\* lines 343-346, one iteration calling user_localization
LocalizeStep ==
    /\ hpc = "loop"
    /\ hi < endline
    /\ user_LAD[hi + 1].home = NaN
    /\ \E h \in user_localization(user_LAD[hi + 1].userid) :
          user_LAD' = [user_LAD EXCEPT ![hi + 1].home = h]
    /\ hi' = hi + 1
    /\ UNCHANGED <<twitter_LAD, hpc, userhome_csv>>
    /\ UNCHANGED notHome

\* line 349
SaveUserHome ==
    /\ hpc = "loop"
    /\ hi >= endline
    /\ userhome_csv' = [k \in DOMAIN user_LAD |->
                           [user_LAD[k] EXCEPT !.home = CsvField(user_LAD[k].home)]]
    /\ hpc' = "saved"
    /\ UNCHANGED <<twitter_LAD, user_LAD, hi>>
    /\ UNCHANGED notHome

NextHome ==
    \/ Aggregate
    \/ LocalizeSkip
    \/ LocalizeStep
    \/ SaveUserHome

----------------------------------------------------------------------------
(* migration(): the flows between two months' user-home files *)

NumMigUsers == 2

\* userid is an integer column
MigUsers == 1..NumMigUsers

\* A user-home file as SaveUserHome writes it: at most one row per userid, the
\* home field a locality or empty.  (The counts column takes no part in the
\* result: after the merge the columns are userid, counts_x, home_x, counts_y,
\* home_y, and the third column of the grouped count is userid's.)
Absent == "absent"
UserHomeFiles ==
    {{[userid |-> u, home |-> f[u]] : u \in {v \in MigUsers : f[v] /= Absent}}
        : f \in [MigUsers -> Locs \cup {"", Absent}]}

\* pd.read_csv of a user-home file
read_csv(file) == {[userid |-> r.userid, home |-> ReadField(r.home)] : r \in file}

\* df1.merge(df2, how='left', on='userid')
LeftMerge(d1, d2) ==
    UNION {IF \E r2 \in d2 : r2.userid = r1.userid
           THEN {[userid |-> r1.userid, home_x |-> r1.home, home_y |-> r2.home]
                    : r2 \in {q \in d2 : q.userid = r1.userid}}
           ELSE {[userid |-> r1.userid, home_x |-> r1.home, home_y |-> NaN]}
           : r1 \in d1}

\* df[(df.home_x.isna() == False) & (df.home_y.isna() == False)]
BothHomes(d) == {r \in d : r.home_x /= NaN /\ r.home_y /= NaN}

\* migration_df = df[df.home_x != df.home_y]
MovedRowsAll(d) == d
MovedRows(d) == {r \in d : r.home_x /= r.home_y}

\* groupby(['home_x','home_y']).count().reset_index().iloc[:,:3]
GroupCount(d) ==
    {[origin_LAD |-> g[1], destination_LAD |-> g[2],
      flow |-> Cardinality({r \in d : r.home_x = g[1] /\ r.home_y = g[2]})]
        : g \in {<<r.home_x, r.home_y>> : r \in d}}

InitMig ==
    /\ file1 \in UserHomeFiles
    /\ file2 \in UserHomeFiles
    /\ mdf = {}
    /\ flow_df = {}
    /\ mpc = "files"

IdleMig ==
    /\ file1 = {}
    /\ file2 = {}
    /\ mdf = {}
    /\ flow_df = {}
    /\ mpc = "idle"

\* lines 373-377
MergeMonths ==
    /\ mpc = "files"
    /\ mdf' = LeftMerge(read_csv(file1), read_csv(file2))
    /\ mpc' = "merged"
    /\ UNCHANGED <<file1, file2, flow_df>>
    /\ UNCHANGED notMig

\* lines 378-379
DropMissing ==
    /\ mpc = "merged"
    /\ mdf' = BothHomes(mdf)
    /\ mpc' = "both"
    /\ UNCHANGED <<file1, file2, flow_df>>
    /\ UNCHANGED notMig

\* line 382
SelectMoved ==
    /\ mpc = "both"
    /\ mdf' = MovedRows(mdf)
    /\ mpc' = "moved"
    /\ UNCHANGED <<file1, file2, flow_df>>
    /\ UNCHANGED notMig

\* lines 385-390
GroupFlows ==
    /\ mpc = "moved"
    /\ flow_df' = GroupCount(mdf)
    /\ mpc' = "flows"
    /\ UNCHANGED <<file1, file2, mdf>>
    /\ UNCHANGED notMig

NextMig ==
    \/ MergeMonths
    \/ DropMissing
    \/ SelectMoved
    \/ GroupFlows

----------------------------------------------------------------------------
(* Place names and dicts *)

AND == " and "
COMMA == ", "

\* loc.split(' and '): the number of pieces
SplitAndLen(loc) == 1 + Cardinality({k \in DOMAIN loc : loc[k] = AND})

\* re.split(' and |, ', loc): the pieces, each a name of its own
ReSplit(loc) == [k \in 1..((Len(loc) + 1) \div 2) |-> <<loc[2 * k - 1]>>]

EmptyDict == [k \in {} |-> <<>>]

\* d.update(e): e's entries override d's
Update(d, e) == [k \in DOMAIN d \cup DOMAIN e |-> IF k \in DOMAIN e THEN e[k] ELSE d[k]]

\* del d[k] for every k of K
Delete(d, K) == [k \in DOMAIN d \ K |-> d[k]]

----------------------------------------------------------------------------
(* The lookup table: lines 63-118 *)

\* lines 63-80
ManualAliases ==
    (<<"Bristol">> :> <<"Bristol", COMMA, "City of">>)
    @@ (<<"Dundee">> :> <<"Dundee City">>)
    @@ (<<"Edinburgh">> :> <<"City of Edinburgh">>)
    @@ (<<"Glasgow">> :> <<"Glasgow City">>)
    @@ (<<"Kingston upon Hull">> :> <<"Kingston upon Hull", COMMA, "City of">>)
    @@ (<<"Herefordshire">> :> <<"Herefordshire", COMMA, "County of">>)
    @@ (<<"North East">> :> <<"North East (England)">>)
    @@ (<<"North West">> :> <<"North West (England)">>)
    @@ (<<"South East">> :> <<"South East (England)">>)
    @@ (<<"South West">> :> <<"South West (England)">>)
    @@ (<<"East Midlands">> :> <<"East Midlands (England)">>)
    @@ (<<"Saint Helier">> :> <<"Jersey">>)
    @@ (<<"Sale">> :> <<"Trafford">>)
    @@ (<<"Huddersfield">> :> <<"Kirklees">>)
    @@ (<<"West Bromwich">> :> <<"Sandwell">>)
    @@ (<<"Ashton-under-Lyne">> :> <<"Tameside">>)

\* Rows the hierarchy file may hold (columns LAD21NM, LAU121NM, ITL321NM,
\* ITL221NM, ITL121NM).  Rows 1, 2 and 3 are rows of the 2021 file; row 4 is
\* a district whose parts also occur in rows 2 and 3, row 5 a district whose
\* name is a part of rows 3 and 4.
HRow(lad, lau, itl3, itl2, itl1) ==
    [LAD21NM |-> lad, LAU121NM |-> lau, ITL321NM |-> itl3, ITL221NM |-> itl2, ITL121NM |-> itl1]

Bristol_City_of == <<"Bristol", COMMA, "City of">>
Ards_and_North_Down == <<"Ards", AND, "North Down">>
Newry_Mourne_and_Down == <<"Newry", COMMA, "Mourne", AND, "Down">>
Ards_and_Down == <<"Ards", AND, "Down">>
Northern_Ireland == <<"Northern Ireland">>

HierarchyRows ==
    { HRow(Bristol_City_of, Bristol_City_of, Bristol_City_of,
           <<"Gloucestershire", COMMA, "Wiltshire", AND, "Bath/Bristol area">>,
           <<"South West (England)">>),
      HRow(Ards_and_North_Down, Ards_and_North_Down, Ards_and_North_Down,
           Northern_Ireland, Northern_Ireland),
      HRow(Newry_Mourne_and_Down, Newry_Mourne_and_Down, Newry_Mourne_and_Down,
           Northern_Ireland, Northern_Ireland),
      HRow(Ards_and_Down, Ards_and_Down, <<"Outer Belfast">>,
           Northern_Ireland, Northern_Ireland),
      HRow(<<"Down">>, <<"Down">>, <<"Outer Belfast">>,
           Northern_Ireland, Northern_Ireland) }

\* Rows the ward file may hold, in file order (columns WD21NM, LAD21NM); the
\* first and the last share their ward name.
WRow(wd, lad) == [WD21NM |-> wd, LAD21NM |-> lad]
WardRows ==
    << WRow(<<"Jersey">>, Ards_and_North_Down),
       WRow(<<"Clifton", AND, "Down">>, Bristol_City_of),
       WRow(<<"Jersey">>, Bristol_City_of) >>

\* The subsequences of s, order kept.
RECURSIVE SubSeqs(_)
SubSeqs(s) ==
    IF s = <<>> THEN {<<>>}
    ELSE LET rest == SubSeqs(Tail(s))
         IN rest \cup {<<Head(s)>> \o t : t \in rest}

\* line 93
LAD_set == {r.LAD21NM : r \in lookup_df}

\* lines 87-90
larger_than_LAD_set_without_ITL1 ==
    ({r.LAU121NM : r \in lookup_df} \cup {r.ITL321NM : r \in lookup_df}
        \cup {r.ITL221NM : r \in lookup_df}) \ LAD_set
larger_than_LAD_set ==
    ({r.LAU121NM : r \in lookup_df} \cup {r.ITL321NM : r \in lookup_df}
        \cup {r.ITL221NM : r \in lookup_df} \cup {r.ITL121NM : r \in lookup_df}) \ LAD_set

\* lines 96 and 109: the name is split
IsCompound(loc) == SplitAndLen(loc) >= 2 /\ Len(ReSplit(loc)) >= 2

\* lines 96-98 for one loc: the entries the inner loop puts into the dict
SplitEntries(loc, target) ==
    IF IsCompound(loc)
    THEN [k \in Range(ReSplit(loc)) |-> target]
    ELSE EmptyDict

\* line 103: to_dict() of the ward column indexed by ward name; of two rows
\* with one ward name the later stays, the key keeps its first position
ward_keys ==
    LET F[k \in 0..Len(ward_df)] ==
          IF k = 0 THEN <<>>
          ELSE IF ward_df[k].WD21NM \in Range(F[k - 1]) THEN F[k - 1]
               ELSE Append(F[k - 1], ward_df[k].WD21NM)
    IN F[Len(ward_df)]
ward_dict ==
    [w \in Range(ward_keys) |->
        ward_df[Max({k \in DOMAIN ward_df : ward_df[k].WD21NM = w})].LAD21NM]

\* lines 107-112: "for loc in ward_dict" runs in key order
ward_split_dict ==
    LET F[k \in 0..Len(ward_keys)] ==
          IF k = 0 THEN EmptyDict
          ELSE Update(F[k - 1], SplitEntries(ward_keys[k], ward_dict[ward_keys[k]]))
    IN F[Len(ward_keys)]

\* lines 116-118
DeleteDuplicates(d) == Delete(d, LAD_set \cup larger_than_LAD_set)

MaxRuns == 2

InitLook ==
    /\ lookup_df \in SUBSET HierarchyRows
    /\ ward_df \in SubSeqs(WardRows)
    \* the ward file names districts of the hierarchy file
    /\ \A k \in DOMAIN ward_df : ward_df[k].LAD21NM \in LAD_set
    /\ lookup_dict = ManualAliases
    /\ LAD_split_dict = EmptyDict
    /\ LAD_todo = LAD_set
    /\ first_dict = EmptyDict
    /\ run = 1
    /\ lpc = "LAD_loop"
    /\ stack = <<>>
    /\ m_ret = -1

IdleLook ==
    /\ lookup_df = {}
    /\ ward_df = <<>>
    /\ lookup_dict = EmptyDict
    /\ LAD_split_dict = EmptyDict
    /\ LAD_todo = {}
    /\ first_dict = EmptyDict
    /\ run = 0
    /\ lpc = "idle"
    /\ stack = <<>>
    /\ m_ret = -1

\* lines 95-98, one iteration; a Python set yields its elements in an order
\* the language does not fix (string hashes are salted per process)
LADSplitIter ==
    /\ lpc = "LAD_loop"
    /\ \E loc \in LAD_todo :
          /\ LAD_split_dict' = Update(LAD_split_dict, SplitEntries(loc, loc))
          /\ LAD_todo' = LAD_todo \ {loc}
    /\ UNCHANGED <<lookup_df, ward_df, lookup_dict, first_dict, run, lpc, stack, m_ret>>
    /\ UNCHANGED notLook

\* line 99
UpdateFromLADSplit ==
    /\ lpc = "LAD_loop"
    /\ LAD_todo = {}
    /\ lookup_dict' = Update(lookup_dict, LAD_split_dict)
    /\ lpc' = "wards"
    /\ UNCHANGED <<lookup_df, ward_df, LAD_split_dict, LAD_todo, first_dict, run, stack, m_ret>>
    /\ UNCHANGED notLook

\* lines 103-118
WardsAndDelete ==
    /\ lpc = "wards"
    /\ lookup_dict' = DeleteDuplicates(Update(Update(lookup_dict, ward_dict), ward_split_dict))
    /\ lpc' = "built"
    /\ UNCHANGED <<lookup_df, ward_df, LAD_split_dict, LAD_todo, first_dict, run, stack, m_ret>>
    /\ UNCHANGED notLook

\* the cell is run again on the same files (lines 63-118 from the top)
RunAgain ==
    /\ lpc = "built"
    /\ run < MaxRuns
    /\ first_dict' = lookup_dict
    /\ lookup_dict' = ManualAliases
    /\ LAD_split_dict' = EmptyDict
    /\ LAD_todo' = LAD_set
    /\ run' = run + 1
    /\ lpc' = "LAD_loop"
    /\ UNCHANGED <<lookup_df, ward_df, stack, m_ret>>
    /\ UNCHANGED notLook

----------------------------------------------------------------------------
(* match(): lines 129-136 *)

MaxDepth == 4

\* The names match may be asked about: every name of the files and of the
\* alias table, every part of one, and a name none of them knows.
PartsOf(N) == UNION {Range(ReSplit(n)) : n \in N}
QueryNames ==
    LET cols == UNION {{r.LAD21NM, r.LAU121NM, r.ITL321NM, r.ITL221NM, r.ITL121NM}
                          : r \in HierarchyRows}
        wards == {WardRows[k].WD21NM : k \in DOMAIN WardRows}
        known == cols \cup wards \cup DOMAIN ManualAliases \cup Range(ManualAliases)
    IN known \cup PartsOf(known) \cup {<<"Atlantis">>}

\* line 135: the argument of the recursive call
AliasTargetSame(d, location) == location
AliasTarget(d, location) == d[location]

\* a call of match(location) from outside
MatchCall ==
    /\ lpc = "built"
    /\ \E location \in QueryNames : stack' = <<location>>
    /\ m_ret' = -1
    /\ lpc' = "match"
    /\ UNCHANGED <<lookup_df, ward_df, lookup_dict, LAD_split_dict, LAD_todo, first_dict, run>>
    /\ UNCHANGED notLook

\* lines 130-133 and 136: the innermost call returns, and with it every caller
MatchReturn ==
    /\ lpc = "match"
    /\ LET location == stack[Len(stack)]
       IN /\ \/ location \in LAD_set /\ m_ret' = 1
             \/ location \notin LAD_set /\ location \in larger_than_LAD_set /\ m_ret' = 2
             \/ /\ location \notin LAD_set
                /\ location \notin larger_than_LAD_set
                /\ location \notin DOMAIN lookup_dict
                /\ m_ret' = 0
    /\ lpc' = "returned"
    /\ UNCHANGED <<lookup_df, ward_df, lookup_dict, LAD_split_dict, LAD_todo, first_dict, run, stack>>
    /\ UNCHANGED notLook

\* lines 134-135: the innermost call calls match on the alias target
MatchRecurse ==
    /\ lpc = "match"
    /\ Len(stack) < MaxDepth
    /\ LET location == stack[Len(stack)]
       IN /\ location \notin LAD_set
          /\ location \notin larger_than_LAD_set
          /\ location \in DOMAIN lookup_dict
          /\ stack' = Append(stack, AliasTarget(lookup_dict, location))
    /\ UNCHANGED <<lookup_df, ward_df, lookup_dict, LAD_split_dict, LAD_todo, first_dict, run, lpc, m_ret>>
    /\ UNCHANGED notLook

NextLook ==
    \/ LADSplitIter
    \/ UpdateFromLADSplit
    \/ WardsAndDelete
    \/ RunAgain
    \/ MatchCall
    \/ MatchReturn
    \/ MatchRecurse

----------------------------------------------------------------------------
(* IOU(): lines 236-250.  Geometry lives on a grid of unit squares: a district
   is a set of squares <<x, y>> (the square [x, x+1] x [y, y+1]), a bounding box
   has integer corners, areas are counts of squares. *)

GridW == 3
GridH == 4

Squares == (0..(GridW - 1)) \X (0..(GridH - 1))

\* a missing coordinate (the bbox columns of a record that kept no box)
NaNCoord == -1
NoBox == [bbox0 |-> NaNCoord, bbox1 |-> NaNCoord, bbox2 |-> NaNCoord, bbox3 |-> NaNCoord]

\* The service's boxes: south latitude, west longitude, north latitude, east
\* longitude, south <= north and west <= east.
Boxes ==
    {[bbox0 |-> s, bbox1 |-> w, bbox2 |-> n, bbox3 |-> e] :
        s \in 0..GridH, w \in 0..GridW, n \in 0..GridH, e \in 0..GridW}
    \cap {b \in [bbox0 : 0..GridH, bbox1 : 0..GridW, bbox2 : 0..GridH, bbox3 : 0..GridW] :
              b.bbox0 <= b.bbox2 /\ b.bbox1 <= b.bbox3}

GRow(name, squares) == [LAD21NM |-> name, geometry |-> squares]

\* Boundary files: two districts side by side with sea to the south-east of
\* the first, three districts in bands, and one district.
GeoFrames ==
    { << GRow(<<"Down">>, {q \in Squares : q[1] = 0}),
         GRow(Bristol_City_of, {q \in Squares : q[1] >= 1 /\ q[2] >= 1}) >>,
      << GRow(Ards_and_North_Down, {q \in Squares : q[2] = 0}),
         GRow(Newry_Mourne_and_Down, {q \in Squares : q[2] = 1}),
         GRow(Ards_and_Down, {q \in Squares : q[2] >= 2}) >>,
      << GRow(Bristol_City_of, Squares) >> }

\* geometry.box(x1, y1, x2, y2): the squares the box covers, and its area
BoxSquares(b) ==
    {q \in Squares : b.bbox1 <= q[1] /\ q[1] < b.bbox3 /\ b.bbox0 <= q[2] /\ q[2] < b.bbox2}
BoxArea(b) == (b.bbox3 - b.bbox1) * (b.bbox2 - b.bbox0)

\* LAD['geometry'].intersects(poly2): closed sets, so touching counts
Intersects(g, b) ==
    \E q \in g : /\ q[1] <= b.bbox3 /\ q[1] + 1 >= b.bbox1
                  /\ q[2] <= b.bbox2 /\ q[2] + 1 >= b.bbox0

\* temp_df['geometry'].intersection(poly2).area
InterArea(g, b) == Cardinality(g \cap BoxSquares(b))

\* the 0.6 of line 246, as IOUNum / IOUDen
IOUNum == 6
IOUDen == 10

\* IOU_se.max() > 0.6 for a row of ratio inter / area; with area = 0 the ratio
\* is NaN and the comparison False
AboveThresholdLax(inter, area) == area > 0 /\ 10 * inter > 4 * area
AboveThreshold(inter, area) == area > 0 /\ IOUDen * inter > IOUNum * area

\* line 240: np.isnan(y1) or y2 - y1 > 2
SpanLimit == 2
Rejected(b) == b.bbox0 = NaNCoord \/ b.bbox2 - b.bbox0 > SpanLimit

\* lines 243-247: IOU_se.idxmax(), the first row of temp_df of maximal ratio
IdxMax(frame, b) ==
    LET temp == {k \in DOMAIN frame : Intersects(frame[k].geometry, b)}
        best == {k \in temp : \A j \in temp :
                    InterArea(frame[j].geometry, b) <= InterArea(frame[k].geometry, b)}
    IN IF temp = {} THEN 0 ELSE CHOOSE k \in best : \A j \in best : k <= j

\* IOU(se) over the frame
IOU(frame, b) ==
    IF Rejected(b) THEN <<>>
    ELSE LET k == IdxMax(frame, b)
         IN IF k /= 0 /\ AboveThreshold(InterArea(frame[k].geometry, b), BoxArea(b))
            THEN frame[k].LAD21NM
            ELSE <<>>

InitIOU ==
    /\ LAD \in GeoFrames
    /\ se \in Boxes \cup {NoBox}
    /\ locality_IOU = <<>>
    /\ ipc = "call"

IdleIOU ==
    /\ LAD = <<>>
    /\ se = NoBox
    /\ locality_IOU = <<>>
    /\ ipc = "idle"

\* lines 240-241
IOUReject ==
    /\ ipc = "call"
    /\ Rejected(se)
    /\ locality_IOU' = IOU(LAD, se)
    /\ ipc' = "done"
    /\ UNCHANGED <<LAD, se>>
    /\ UNCHANGED notIOU

\* lines 242-247, a name returned
IOUAccept ==
    /\ ipc = "call"
    /\ ~Rejected(se)
    /\ IOU(LAD, se) /= <<>>
    /\ locality_IOU' = IOU(LAD, se)
    /\ ipc' = "done"
    /\ UNCHANGED <<LAD, se>>
    /\ UNCHANGED notIOU

\* lines 242-250, no row above the threshold
IOUNone ==
    /\ ipc = "call"
    /\ ~Rejected(se)
    /\ IOU(LAD, se) = <<>>
    /\ locality_IOU' = IOU(LAD, se)
    /\ ipc' = "done"
    /\ UNCHANGED <<LAD, se>>
    /\ UNCHANGED notIOU

NextIOU ==
    \/ IOUReject
    \/ IOUAccept
    \/ IOUNone

----------------------------------------------------------------------------
(* match and change_place_name as functions of the finished table: lines 129-145 *)

\* match(location); the recursion is given MaxDepth alias steps (Python gives
\* it its recursion limit)
RECURSIVE matchN(_, _)
matchN(location, fuel) ==
    IF location \in LAD_set THEN 1
    ELSE IF location \in larger_than_LAD_set THEN 2
    ELSE IF location \in DOMAIN lookup_dict /\ fuel > 0
         THEN matchN(AliasTarget(lookup_dict, location), fuel - 1)
    ELSE 0
match(location) == matchN(location, MaxDepth)

\* change_place_name(place)
change_place_name(place) ==
    IF place \in DOMAIN lookup_dict THEN lookup_dict[place]
    ELSE IF match(place) > 0 THEN place
    ELSE <<>>

\* The table a run of lines 63-118 leaves when LAD_set is iterated in `order`.
BuiltDict(order) ==
    LET F[k \in 0..Len(order)] ==
          IF k = 0 THEN EmptyDict
          ELSE Update(F[k - 1], SplitEntries(order[k], order[k]))
    IN DeleteDuplicates(
          Update(Update(Update(ManualAliases, F[Len(order)]), ward_dict), ward_split_dict))

----------------------------------------------------------------------------
(* The geocoding cells: lookup (157-161), Bing geocoding (181-218), bounding
   box intersection (266-273) *)

BatchLen == 2

\* Twitter place attributes: an alias of a district, a district, an alias of a
\* name outside the hierarchy, a place the table does not know.
RawPlaces == {<<"Bristol">>, <<"Down">>, <<"Saint Helier">>, <<"Clifton Village">>}

\* str.split(', ')
RECURSIVE SplitComma(_)
SplitComma(str) ==
    IF \A k \in DOMAIN str : str[k] /= COMMA THEN <<str>>
    ELSE LET k == CHOOSE i \in DOMAIN str :
                     str[i] = COMMA /\ \A j \in 1..(i - 1) : str[j] /= COMMA
         IN <<SubSeq(str, 1, k - 1)>> \o SplitComma(SubSeq(str, k + 1, Len(str)))

\* An address of the service: <<>> stands for a key the address does not have.
Address(loc, formatted) == [locality |-> loc, formattedAddress |-> formatted]
Addresses ==
    { Address(<<"Bristol">>, <<"Bristol", COMMA, "United Kingdom">>),
      Address(<<"Atlantis">>, <<"Atlantis", COMMA, "Down", COMMA, "Northern Ireland">>),
      Address(<<>>, <<"Stormont", COMMA, "Northern Ireland", COMMA, "United Kingdom">>),
      Address(<<>>, <<"Bangor">>),
      Address(<<"Atlantis">>, <<"Atlantis", COMMA, "United Kingdom">>),
      Address(<<"Atlantis">>, <<>>),
      Address(<<>>, <<>>) }

\* Bounding boxes of the service: one inside the first column of the grid, one
\* across two columns, one taller than IOU accepts.
GeoBoxes ==
    { [bbox0 |-> 1, bbox1 |-> 0, bbox2 |-> 3, bbox3 |-> 1],
      [bbox0 |-> 1, bbox1 |-> 0, bbox2 |-> 2, bbox3 |-> 2],
      [bbox0 |-> 0, bbox1 |-> 1, bbox2 |-> 3, bbox3 |-> 2] }

\* The override map special_loc_dict is used by line 212 and defined nowhere in
\* the notebook: a map from outputs of the geocoder to official names.
SpecialLocDicts ==
    { EmptyDict,
      (<<"Bristol">> :> Bristol_City_of),
      (<<"Bangor">> :> Ards_and_North_Down) }

KeyError == <<"KeyError">>

\* lines 195-205: the local `locality` when line 207 is reached, or KeyError
\* when address['locality'] and address['formattedAddress'] are both missing,
\* or the latter is missing when it is needed
Candidate(address) ==
    LET hasLoc == address.locality /= <<>>
        hasFmt == address.formattedAddress /= <<>>
        tokens == SplitComma(address.formattedAddress)
        first == IF hasLoc THEN address.locality ELSE tokens[1]
        address_num == IF hasLoc THEN 0 ELSE 1
        \* range(address_num, len(tokens)), as positions of tokens
        js == (address_num + 1)..Len(tokens)
        hits == {j \in js : match(tokens[j]) > 0}
    IN IF ~hasLoc /\ ~hasFmt THEN KeyError
       ELSE IF match(first) /= 0 THEN first
       ELSE IF ~hasFmt THEN KeyError
       ELSE IF hits /= {} THEN tokens[CHOOSE j \in hits : \A h \in hits : j <= h]
       ELSE IF js /= {} THEN tokens[Len(tokens)]
       ELSE first

\* line 208: the bounding box is saved
KeepBoxUnmatchedOnly(locality) == match(locality) = 0
KeepBox(locality) == match(locality) /= 1

\* lines 212-215
Renamed(locality) ==
    IF locality \in DOMAIN special_loc_dict THEN special_loc_dict[locality] ELSE locality

\* a row of df; `service` records what the service did for the row ("none"
\* while it was not asked), `candidate` the local `locality` at line 207
DfRow(location) ==
    [location |-> location, locality |-> <<>>, locality_match |-> 0, bbox |-> NoBox,
     service |-> "none", candidate |-> <<>>]

InitGeo ==
    /\ df \in [1..BatchLen -> {DfRow(p) : p \in RawPlaces}]
    /\ special_loc_dict \in SpecialLocDicts
    /\ gi = 0
    /\ gpc = "read"

IdleGeo ==
    /\ df = <<>>
    /\ special_loc_dict = EmptyDict
    /\ gi = 0
    /\ gpc = "idle"

\* the reference data the geocoding cells run with: the files read, the table
\* built by one run of lines 63-118, the boundary file read
GeoReference ==
    /\ lookup_df = HierarchyRows
    /\ ward_df = <<WardRows[2]>>
    /\ lookup_dict \in {BuiltDict(o) : o \in Perms(LAD_set)}
    /\ LAD_split_dict = EmptyDict
    /\ LAD_todo = {}
    /\ first_dict = EmptyDict
    /\ run = 1
    /\ lpc = "geocoding"
    /\ stack = <<>>
    /\ m_ret = -1
    /\ LAD \in GeoFrames
    /\ se = NoBox
    /\ locality_IOU = <<>>
    /\ ipc = "idle"

\* lines 160-161
LookupStage ==
    /\ gpc = "read"
    /\ df' = [k \in DOMAIN df |->
                 LET loc == change_place_name(df[k].location)
                 IN [df[k] EXCEPT !.locality = loc, !.locality_match = match(loc)]]
    /\ gpc' = "geocode"
    /\ UNCHANGED <<special_loc_dict, gi>>
    /\ UNCHANGED notGeo

\* lines 183-184: the row is already matched with the lookup table
GeoSkip ==
    /\ gpc = "geocode"
    /\ gi < Len(df)
    /\ df[gi + 1].locality /= <<>>
    /\ gi' = gi + 1
    /\ UNCHANGED <<df, special_loc_dict, gpc>>
    /\ UNCHANGED notGeo

\* line 188: requests.get raises (no connection, timeout); nothing catches it
GeoNetworkError ==
    /\ gpc = "geocode"
    /\ gi < Len(df)
    /\ df[gi + 1].locality = <<>>
    /\ df' = [df EXCEPT ![gi + 1].service = "network error"]
    /\ gpc' = "aborted"
    /\ UNCHANGED <<special_loc_dict, gi>>
    /\ UNCHANGED notGeo

\* line 189: a status other than 200
GeoBadStatus ==
    /\ gpc = "geocode"
    /\ gi < Len(df)
    /\ df[gi + 1].locality = <<>>
    /\ df' = [df EXCEPT ![gi + 1].service = "bad status"]
    /\ gi' = gi + 1
    /\ UNCHANGED <<special_loc_dict, gpc>>
    /\ UNCHANGED notGeo

\* lines 190-191: estimatedTotal == 0
GeoNoResult ==
    /\ gpc = "geocode"
    /\ gi < Len(df)
    /\ df[gi + 1].locality = <<>>
    /\ df' = [df EXCEPT ![gi + 1].service = "no result"]
    /\ gi' = gi + 1
    /\ UNCHANGED <<special_loc_dict, gpc>>
    /\ UNCHANGED notGeo

\* lines 192-205 with an address that lacks a key the code reads: KeyError,
\* which nothing catches
GeoMalformed ==
    /\ gpc = "geocode"
    /\ gi < Len(df)
    /\ df[gi + 1].locality = <<>>
    /\ \E address \in Addresses : Candidate(address) = KeyError
    /\ df' = [df EXCEPT ![gi + 1].service = "malformed address"]
    /\ gpc' = "aborted"
    /\ UNCHANGED <<special_loc_dict, gi>>
    /\ UNCHANGED notGeo

\* lines 192-215 with a result
GeoResolve ==
    /\ gpc = "geocode"
    /\ gi < Len(df)
    /\ df[gi + 1].locality = <<>>
    /\ \E address \in Addresses, box \in GeoBoxes :
          LET locality == Candidate(address)
          IN /\ locality /= KeyError
             /\ df' = [df EXCEPT ![gi + 1].service = "result",
                                  ![gi + 1].candidate = locality,
                                  ![gi + 1].bbox = IF KeepBox(locality) THEN box ELSE NoBox,
                                  ![gi + 1].locality = Renamed(locality)]
    /\ gi' = gi + 1
    /\ UNCHANGED <<special_loc_dict, gpc>>
    /\ UNCHANGED notGeo

\* line 218
GeoMatch ==
    /\ gpc = "geocode"
    /\ gi >= Len(df)
    /\ df' = [k \in DOMAIN df |-> [df[k] EXCEPT !.locality_match = match(df[k].locality)]]
    /\ gpc' = "geocoded"
    /\ UNCHANGED <<special_loc_dict, gi>>
    /\ UNCHANGED notGeo

\* lines 266-273
IOUStage ==
    /\ gpc = "geocoded"
    /\ df' = [k \in DOMAIN df |->
                 LET byBox == IOU(LAD, df[k].bbox)
                     loc == IF match(byBox) = 1 THEN byBox ELSE df[k].locality
                 IN [df[k] EXCEPT !.locality = loc, !.locality_match = match(loc)]]
    /\ gpc' = "done"
    /\ UNCHANGED <<special_loc_dict, gi>>
    /\ UNCHANGED notGeo

NextGeo ==
    \/ LookupStage
    \/ GeoSkip
    \/ GeoNetworkError
    \/ GeoBadStatus
    \/ GeoNoResult
    \/ GeoMalformed
    \/ GeoResolve
    \/ GeoMatch
    \/ IOUStage

----------------------------------------------------------------------------
(* Specifications *)

HomeStart == InitHome /\ IdleMig /\ IdleLook /\ IdleIOU /\ IdleGeo
SpecHome == HomeStart /\ [][NextHome]_vars

MigStart == InitMig /\ IdleHome /\ IdleLook /\ IdleIOU /\ IdleGeo
SpecMig == MigStart /\ [][NextMig]_vars

LookStart == InitLook /\ IdleHome /\ IdleMig /\ IdleIOU /\ IdleGeo
SpecLookup == LookStart /\ [][NextLook]_vars

IOUStart == InitIOU /\ IdleHome /\ IdleMig /\ IdleLook /\ IdleGeo
SpecIOU == IOUStart /\ [][NextIOU]_vars

GeoStart == GeoReference /\ InitGeo /\ IdleHome /\ IdleMig
SpecGeo == GeoStart /\ [][NextGeo]_vars

----------------------------------------------------------------------------
(* Claims *)

\* The home the saved file gives user u when read back: a locality, or NaN when
\* the field is empty or the file has no row for u.
SavedHome(u) ==
    IF \E k \in DOMAIN userhome_csv : userhome_csv[k].userid = u
    THEN ReadField(userhome_csv[CHOOSE k \in DOMAIN userhome_csv :
                                     userhome_csv[k].userid = u].home)
    ELSE NaN

(* C1 as stated: at the saved month file, a user all of whose posts are in one
   locality X has home X, for every post count >= 1 (one post included). *)
C1_SingleLocalityAnyCount ==
    hpc = "saved" =>
        \A u \in Users : \A x \in Locs :
            (UserLocs(u) = {x} /\ UserCount(u) >= 1) => SavedHome(u) = x

(* C1 amended: at the saved month file, a user with at least two posts, all of
   them in one locality X, has home X; a user with a single post has no row. *)
C1_SingleLocalityTwoOrMore ==
    hpc = "saved" =>
        \A u \in Users : \A x \in Locs :
            /\ (UserLocs(u) = {x} /\ UserCount(u) >= 2) => SavedHome(u) = x
            /\ UserCount(u) = 1 => \A k \in DOMAIN userhome_csv : userhome_csv[k].userid /= u

C1_Witness ==
    /\ hpc = "saved"
    /\ \E u, v \in Users :
          /\ UserLocs(u) = {"X"} /\ UserCount(u) = 2 /\ SavedHome(u) = "X"
          /\ UserLocs(v) = {"Y"} /\ UserCount(v) = 1 /\ SavedHome(v) = NaN

(* C2: at the saved month file, a user with two or more distinct localities has
   the locality of highest count as home if and only if the total is > 1 and
   that count / total > 0.65 (13/20); otherwise the user has no home. *)
C2_SupermajorityRule ==
    hpc = "saved" =>
        \A u \in Users :
            Cardinality(UserLocs(u)) >= 2 =>
                LET total == UserCount(u)
                    mx == Max({twitter_LAD[u][l] : l \in Locs})
                    modal == {l \in Locs : twitter_LAD[u][l] = mx}
                IN IF total > 1 /\ 20 * mx > 13 * total
                   THEN Cardinality(modal) = 1 /\ SavedHome(u) \in modal
                   ELSE SavedHome(u) = NaN

C2_Witness ==
    /\ hpc = "saved"
    /\ \E u, v \in Users :
          /\ twitter_LAD[u] = [l \in Locs |-> IF l = "X" THEN 7 ELSE IF l = "Y" THEN 3 ELSE 0]
          /\ SavedHome(u) = "X"
          /\ twitter_LAD[v] = [l \in Locs |-> IF l = "X" THEN 6 ELSE IF l = "Y" THEN 4 ELSE 0]
          /\ SavedHome(v) = NaN

\* The home a user-home file gives user u: a locality, or NaN.
FileHome(file, u) ==
    IF \E r \in file : r.userid = u
    THEN ReadField((CHOOSE r \in file : r.userid = u).home)
    ELSE NaN

\* The flow the returned frame reports for (o, d): 0 when it has no such row.
ReportedFlow(o, d) ==
    IF \E r \in flow_df : r.origin_LAD = o /\ r.destination_LAD = d
    THEN (CHOOSE r \in flow_df : r.origin_LAD = o /\ r.destination_LAD = d).flow
    ELSE 0

(* C3: the flow reported for (o, d) is the number of users with home o in the
   first month and home d in the second, o /= d; a user with the same home in
   both months or without a home in either counts nowhere; no row has origin
   equal to destination, and a pair has at most one row. *)
C3_FlowCounts ==
    mpc = "flows" =>
        /\ \A o, d \in Locs :
              ReportedFlow(o, d) =
                 Cardinality({u \in MigUsers :
                                 FileHome(file1, u) = o /\ FileHome(file2, u) = d /\ o /= d})
        /\ \A r \in flow_df :
              /\ r.origin_LAD \in Locs /\ r.destination_LAD \in Locs
              /\ r.origin_LAD /= r.destination_LAD
              /\ r.flow >= 1
        /\ \A r, q \in flow_df :
              (r.origin_LAD = q.origin_LAD /\ r.destination_LAD = q.destination_LAD) => r = q

C3_Witness ==
    /\ mpc = "flows"
    /\ flow_df = {[origin_LAD |-> "X", destination_LAD |-> "Y", flow |-> 1]}
    /\ \E u, v \in MigUsers :
          /\ FileHome(file1, u) = "X" /\ FileHome(file2, u) = "Y"
          /\ FileHome(file1, v) = "Z" /\ FileHome(file2, v) = "Z"

\* The names of the LAU1, ITL3, ITL2 and ITL1 columns.
CoarserColumnNames ==
    {r.LAU121NM : r \in lookup_df} \cup {r.ITL321NM : r \in lookup_df}
        \cup {r.ITL221NM : r \in lookup_df} \cup {r.ITL121NM : r \in lookup_df}

(* C4 as stated: match returns 2 for every name of a coarser-level column,
   whatever other sets the name belongs to. *)
C4_CoarserAlwaysTwo ==
    (lpc = "returned" /\ stack[1] \in CoarserColumnNames) => m_ret = 2

(* C4 amended: match returns 2 for every name of a coarser-level column that is
   not also a finest-level (LAD) name, and 1 for one that is. *)
C4_CoarserTwoUnlessLAD ==
    (lpc = "returned" /\ stack[1] \in CoarserColumnNames) =>
        m_ret = IF stack[1] \in {r.LAD21NM : r \in lookup_df} THEN 1 ELSE 2

C4_Witness ==
    /\ lpc = "returned"
    /\ stack = <<(<<"South West (England)">>)>>
    /\ stack[1] \in {r.ITL121NM : r \in lookup_df}
    /\ m_ret = 2

(* C7: two runs of the construction on the same files end with the same
   lookup_dict, whatever the order in which LAD_set was iterated. *)
C7_SameTableTwice ==
    (lpc = "built" /\ run = 2) => lookup_dict = first_dict

(* C9: match never calls itself on a name an active call already has, and the
   chain of calls is at most three long (two alias steps), on every table the
   construction produces. *)
C9_NoAliasCycle ==
    lpc = "match" =>
        /\ \A a, b \in DOMAIN stack : a /= b => stack[a] /= stack[b]
        /\ Len(stack) <= 3

C9_Witness ==
    /\ lpc = "match"
    /\ Len(stack) = 3
    /\ stack[1] \in DOMAIN ManualAliases
    /\ stack[3] \in LAD_set

\* The box lies inside district k of the frame and meets no other district:
\* every square it covers, and for a box without area every square it touches,
\* is the district's, and no other district touches it.
InsideOnly(frame, k, b) ==
    /\ BoxSquares(b) \subseteq frame[k].geometry
    /\ Intersects(frame[k].geometry, b)
    /\ BoxArea(b) = 0 =>
          \A q \in Squares : Intersects({q}, b) => q \in frame[k].geometry
    /\ \A j \in DOMAIN frame : j /= k => ~Intersects(frame[j].geometry, b)

\* IOU's answer for a box inside one district only is that district.
InsideResolves(limit) ==
    \A k \in DOMAIN LAD :
        (InsideOnly(LAD, k, se) /\ limit) => locality_IOU = LAD[k].LAD21NM

\* No district reaches 0.6 of the box: the answer is ''.
BelowResolvesEmpty ==
    (\A k \in DOMAIN LAD : 5 * InterArea(LAD[k].geometry, se) < 3 * BoxArea(se))
        => locality_IOU = <<>>

\* A name returned is a district of maximal ratio, and that ratio is > 0.6.
ReturnedIsBest ==
    locality_IOU /= <<>> =>
        \E k \in DOMAIN LAD :
            /\ LAD[k].LAD21NM = locality_IOU
            /\ \A j \in DOMAIN LAD :
                  InterArea(LAD[j].geometry, se) <= InterArea(LAD[k].geometry, se)
            /\ 5 * InterArea(LAD[k].geometry, se) > 3 * BoxArea(se)

(* C5 as stated: for every box without missing coordinates, a box inside one
   district only resolves to it, a box no district covers to 0.6 resolves to '',
   and a returned name is the district of maximal ratio, the ratio above 0.6. *)
C5_AcceptanceAnyBox ==
    (ipc = "done" /\ se /= NoBox) =>
        InsideResolves(TRUE) /\ BelowResolvesEmpty /\ ReturnedIsBest

(* C5 amended: the same, the first part only for a box of vertical span at most
   2 and of non-zero area. *)
C5_AcceptanceSaneBox ==
    (ipc = "done" /\ se /= NoBox) =>
        /\ InsideResolves(se.bbox2 - se.bbox0 <= 2 /\ BoxArea(se) > 0)
        /\ BelowResolvesEmpty
        /\ ReturnedIsBest

C5_Witness ==
    /\ ipc = "done"
    /\ \E k \in DOMAIN LAD :
          /\ Len(LAD) >= 2
          /\ InsideOnly(LAD, k, se)
          /\ BoxArea(se) = 2
          /\ locality_IOU = LAD[k].LAD21NM

\* the service failed on row k
ServiceFailed(k) ==
    df[k].service \in {"network error", "bad status", "no result", "malformed address"}

(* C6: a failure of the service on one row leaves that row unresolved
   (locality '', match level 0, no box) and never aborts the pass: the loop goes
   on to every later row. *)
C6_FailureAbsorbed ==
    /\ gpc /= "aborted"
    /\ \A k \in DOMAIN df :
          ServiceFailed(k) =>
              /\ df[k].locality = <<>> /\ df[k].locality_match = 0 /\ df[k].bbox = NoBox
              /\ gpc \in {"geocoded", "done"} => gi = Len(df)

(* C8 as stated: after the geocoding loop, a geocoded row holds a bounding box
   if and only if the locality stored for it (after special_loc_dict) does not
   match at level 1; so a row holding a box has match level /= 1. *)
C8_BoxIffStoredNotFinest ==
    gpc = "geocoded" =>
        \A k \in DOMAIN df :
            /\ df[k].service = "result" =>
                  (df[k].bbox /= NoBox <=> match(df[k].locality) /= 1)
            /\ df[k].bbox /= NoBox => df[k].locality_match /= 1

(* C8 amended: a geocoded row holds a bounding box if and only if the candidate
   extracted from the address, before special_loc_dict is applied, does not
   match at level 1; rows that were not geocoded hold no box. *)
C8_BoxIffCandidateNotFinest ==
    gpc \in {"geocode", "geocoded"} =>
        \A k \in DOMAIN df :
            /\ df[k].service = "result" =>
                  (df[k].bbox /= NoBox <=> match(df[k].candidate) /= 1)
            /\ df[k].service /= "result" => df[k].bbox = NoBox

C8_Witness ==
    /\ gpc = "geocoded"
    /\ \E k, j \in DOMAIN df :
          /\ df[k].service = "result" /\ match(df[k].candidate) = 2 /\ df[k].bbox /= NoBox
          /\ df[j].service = "result" /\ match(df[j].candidate) = 1 /\ df[j].bbox = NoBox

(* C10: at the end of the pipeline every row of match level 1 stores a
   canonical finest-level (LAD) name, never an alias that matches at level 1. *)
C10_FinestIsCanonical ==
    gpc = "done" =>
        \A k \in DOMAIN df : df[k].locality_match = 1 => df[k].locality \in LAD_set

====
